---- MODULE Spec2Model ----
(***************************************************************************)
(* Model of python_scripts/check_sonarqube_issues.py: the paginated fetch  *)
(* of SonarQubeClient.get_issues, the scorer get_priority_score and the    *)
(* pipeline of main (token check, fetch, score, sort, top 50, table and    *)
(* summary).                                                               *)
(*                                                                         *)
(* Scores are kept in tenths (1.5 -> 15, 7.5 -> 75): every product of the  *)
(* two tables is a multiple of 0.1, two products differ by at least 0.1    *)
(* or are equal, and IEEE rounding of the product is monotonic (5 * 1.2    *)
(* and 4 * 1.5 both round to 6.0), so the order and the ties of the float  *)
(* scores are those of the tenths.                                         *)
(***************************************************************************)
EXTENDS Integers, Sequences, FiniteSets, TLC

VARIABLES
    entry,            \* "main": the script runs; "get_issues": the method is called directly
    token,            \* os.environ.get('SONARQ_TOKEN')
    service,          \* the issue-search service the client talks to
    limit,            \* get_issues' parameter
    pc,               \* position of the run
    all_issues,       \* get_issues' accumulator
    page,             \* get_issues' page counter
    requests,         \* the page numbers of the GET requests issued so far, in order
    issues,           \* get_issues' return value / main's list (scored, then sorted)
    table_data,       \* rows of the printed table
    severity_counts,  \* tally by severity over the displayed rows
    type_counts,      \* tally by type over the displayed rows
    summary,          \* the two counts of the printed summary
    out,              \* what was printed, in order
    exit_code         \* the exit status of the process once pc is terminal

vars == <<entry, token, service, limit, pc, all_issues, page, requests, issues,
          table_data, severity_counts, type_counts, summary, out, exit_code>>

----------------------------------------------------------------------------
(* Program constants *)

PageSize == 100          \* page_size
DefaultLimit == 500      \* main's get_issues(limit=500)
TopN == 50               \* issues[:50]

SeverityOrder == <<"BLOCKER", "CRITICAL", "MAJOR", "MINOR", "INFO">>

KnownSeverities == {SeverityOrder[i] : i \in 1..Len(SeverityOrder)}

KnownTypes == {"VULNERABILITY", "BUG", "SECURITY_HOTSPOT", "CODE_SMELL"}

----------------------------------------------------------------------------
(* Bounds of the model *)

MaxIssues == 2     \* services holding 0..MaxIssues issues take every list of kinds
MaxLimit == 3      \* direct calls take every limit in -1..MaxLimit
MaxPageLen == 2    \* an unconstrained service answers with 0..MaxPageLen issues
MaxTotal == 4      \* ... and reports a total in 0..MaxTotal (0 also stands for a missing total)

\* Values a service may send: the documented ones and one outside each table.
Severities == KnownSeverities \cup {"TRIVIAL"}
Types == KnownTypes \cup {"OTHER"}

Kinds == [severity : Severities, type : Types]

Kind(s, t) == [severity |-> s, type |-> t]

\* Larger services repeat one of these patterns of kinds.
Patterns ==
    { << Kind("MINOR", "CODE_SMELL"), Kind("BLOCKER", "SECURITY_HOTSPOT"),
         Kind("MAJOR", "CODE_SMELL"), Kind("CRITICAL", "VULNERABILITY"),
         Kind("INFO", "BUG"), Kind("MINOR", "VULNERABILITY"),
         Kind("MAJOR", "OTHER") >>,
      << Kind("MAJOR", "CODE_SMELL"), Kind("CRITICAL", "CODE_SMELL"),
         Kind("TRIVIAL", "CODE_SMELL") >> }

BigTotals == {49, 50, 51, 80, 99, 100, 101, 200, 250, 1000}

BigLimits == {100, 120, 500}

Min(a, b) == IF a <= b THEN a ELSE b
Max(a, b) == IF a >= b THEN a ELSE b

----------------------------------------------------------------------------
(* The service *)

\* The k-th issue the service holds.
ServiceIssue(k) ==
    LET kind == service.kinds[((k - 1) % Len(service.kinds)) + 1]
    IN  [id |-> k, severity |-> kind.severity, type |-> kind.type]

\* A service that pages: page p of its T issues, and total = T on every page.
PagedResponse(p) ==
    LET lo == PageSize * (p - 1) + 1
        hi == Min(PageSize * p, service.T)
    IN  [issues |-> [i \in 1..Max(hi - lo + 1, 0) |-> ServiceIssue(lo + i - 1)],
         total  |-> service.T]

\* A service under no constraint: any number of further issues, any total.
FreeResponses ==
    { [issues |-> [i \in 1..n |-> ServiceIssue(Len(all_issues) + i)], total |-> t] :
        n \in 0..MaxPageLen, t \in 0..MaxTotal }

Responses(p) ==
    IF service.mode = "paged" THEN {PagedResponse(p)} ELSE FreeResponses

----------------------------------------------------------------------------
(* SonarQubeClient.get_issues *)

\* Variant: the loop test off by one.
MoreWantedOff(n, lim) == n <= lim

\* while len(all_issues) < limit
MoreWanted(n, lim) == n < lim

\* Variant: no truncation.
PySliceAll(s, lim) == s

\* s[:lim], a Python slice: a negative lim counts from the end
PySlice(s, lim) ==
    IF lim >= 0 THEN SubSeq(s, 1, Min(lim, Len(s)))
    ELSE SubSeq(s, 1, Max(Len(s) + lim, 0))

\* Variant: an empty page does not end the fetch.
PageEmptyNever(got) == FALSE

\* if not issues: break
PageEmpty(got) == got = <<>>

\* if len(all_issues) >= data.get('total', 0): break
TotalReached(n, total) == n >= total

\* The loop test succeeds: the GET for the current page goes out.
Request ==
    /\ pc = "loop"
    /\ MoreWanted(Len(all_issues), limit)
    /\ requests' = Append(requests, page)
    /\ pc' = "await"
    /\ UNCHANGED <<entry, token, service, limit, all_issues, page, issues,
                   table_data, severity_counts, type_counts, summary, out, exit_code>>

\* The loop test fails, or the loop was left by break: return all_issues[:limit].
Return ==
    /\ \/ pc = "loop" /\ ~MoreWanted(Len(all_issues), limit)
       \/ pc = "break"
    /\ issues' = PySlice(all_issues, limit)
    /\ pc' = IF entry = "main" THEN "fetched" ELSE "returned"
    /\ UNCHANGED <<entry, token, service, limit, all_issues, page, requests,
                   table_data, severity_counts, type_counts, summary, out, exit_code>>

\* The request succeeds: take the page, then break or go on to the next page.
ResponseOk ==
    /\ pc = "await"
    /\ \E data \in Responses(page) :
         IF PageEmpty(data.issues)
         THEN /\ pc' = "break"
              /\ UNCHANGED <<all_issues, page>>
         ELSE /\ all_issues' = all_issues \o data.issues
              /\ IF TotalReached(Len(all_issues'), data.total)
                 THEN pc' = "break" /\ page' = page
                 ELSE pc' = "loop" /\ page' = page + 1
    /\ UNCHANGED <<entry, token, service, limit, requests, issues,
                   table_data, severity_counts, type_counts, summary, out, exit_code>>

\* Variant: the failure is printed and the page is requested again.
ResponseFailRetry ==
    /\ pc = "await"
    /\ out' = Append(out, "Error fetching issues")
    /\ pc' = "loop"
    /\ UNCHANGED <<entry, token, service, limit, all_issues, page, requests, issues,
                   table_data, severity_counts, type_counts, summary, exit_code>>

\* The request raises a RequestException: print the error, sys.exit(1).
ResponseFail ==
    /\ pc = "await"
    /\ out' = Append(out, "Error fetching issues")
    /\ exit_code' = 1
    /\ pc' = "exited"
    /\ UNCHANGED <<entry, token, service, limit, all_issues, page, requests, issues,
                   table_data, severity_counts, type_counts, summary>>

----------------------------------------------------------------------------
(* SonarQubeClient.get_priority_score *)

\* severity_scores.get(severity, 0)
severity_scores(severity) ==
    CASE severity = "BLOCKER"  -> 5
      [] severity = "CRITICAL" -> 4
      [] severity = "MAJOR"    -> 3
      [] severity = "MINOR"    -> 2
      [] severity = "INFO"     -> 1
      [] OTHER                 -> 0

\* type_multiplier.get(type_, 1.0), in tenths
type_multiplier(type_) ==
    CASE type_ = "VULNERABILITY"    -> 15
      [] type_ = "BUG"              -> 13
      [] type_ = "SECURITY_HOTSPOT" -> 12
      [] type_ = "CODE_SMELL"       -> 10
      [] OTHER                      -> 10

\* Variant: the type is ignored.
get_priority_score_flat(severity, type_) == severity_scores(severity) * 10

\* severity_score * multiplier, in tenths
get_priority_score(severity, type_) ==
    severity_scores(severity) * type_multiplier(type_)

----------------------------------------------------------------------------
(* main *)

\* Variant: only an unset variable counts as missing.
TokenMissingUnsetOnly(tok) == tok = "unset"

\* if not token: None (unset) and the empty string are both falsy
TokenMissing(tok) == tok \in {"unset", ""}

\* ['BLOCKER', 'CRITICAL', 'MAJOR', 'MINOR', 'INFO'].index(severity), where it is defined
SeverityIndex(severity) ==
    (CHOOSE i \in 1..Len(SeverityOrder) : SeverityOrder[i] = severity) - 1

\* .index raises ValueError for a value that is not in the list
IndexRaises(severity) == severity \notin KnownSeverities

\* Variant: the score is not negated.
SortKeyAscending(x) == <<x.priority_score, SeverityIndex(x.severity)>>

\* the sort key (-priority_score, index of severity)
SortKey(x) == <<0 - x.priority_score, SeverityIndex(x.severity)>>

\* Python's order on the key tuples
KeyLess(k1, k2) == k1[1] < k2[1] \/ (k1[1] = k2[1] /\ k1[2] < k2[2])

\* list.sort(key=...) is a stable merge sort. Merging two sorted runs: the middle
\* element of the left run goes after the elements of the right run whose key is
\* strictly less than its own, and before the others (on equal keys, left first).
RECURSIVE Merge(_, _)
Merge(a, b) ==
    IF a = <<>> THEN b
    ELSE IF b = <<>> THEN a
    ELSE LET mid == (Len(a) + 1) \div 2
             k   == Cardinality({j \in 1..Len(b) :
                                   KeyLess(SortKey(b[j]), SortKey(a[mid]))})
         IN  Merge(SubSeq(a, 1, mid - 1), SubSeq(b, 1, k))
               \o <<a[mid]>>
               \o Merge(SubSeq(a, mid + 1, Len(a)), SubSeq(b, k + 1, Len(b)))

RECURSIVE MergeSort(_)
MergeSort(s) ==
    IF Len(s) <= 1 THEN s
    ELSE LET h == Len(s) \div 2
         IN  Merge(MergeSort(SubSeq(s, 1, h)), MergeSort(SubSeq(s, h + 1, Len(s))))

\* Variant: one row too many.
TopOneMore(s) == PySlice(s, TopN + 1)

\* issues[:50]
Top(s) == PySlice(s, TopN)

\* The tallies of the displayed rows: a key is present once it was counted.
Tally(top, field) ==
    [v \in {top[i][field] : i \in 1..Len(top)} |->
        Cardinality({i \in 1..Len(top) : top[i][field] = v})]

\* Lines 111-126: read the environment, check the token, construct the client.
MainStart ==
    /\ pc = "main"
    /\ IF TokenMissing(token)
       THEN /\ out' = Append(out, "Error: SONARQ_TOKEN environment variable not set")
            /\ exit_code' = 1
            /\ pc' = "exited"
       ELSE /\ out' = out \o <<"Connecting to SonarQube", "Project key", "",
                               "Fetching issues...">>
            /\ exit_code' = exit_code
            /\ pc' = "loop"
    /\ UNCHANGED <<entry, token, service, limit, all_issues, page, requests, issues,
                   table_data, severity_counts, type_counts, summary>>

\* The issues of the list, each with its priority_score.
Scored(list) ==
    [i \in 1..Len(list) |->
        [id |-> list[i].id,
         severity |-> list[i].severity,
         type |-> list[i].type,
         priority_score |-> get_priority_score(list[i].severity, list[i].type)]]

\* Variant: the empty list is not short-circuited.
MainScoreNoEmptyCheck ==
    /\ pc = "fetched"
    /\ issues' = Scored(issues)
    /\ pc' = "scored"
    /\ UNCHANGED <<entry, token, service, limit, all_issues, page, requests,
                   table_data, severity_counts, type_counts, summary, out, exit_code>>

\* Lines 127-136: the fetch returned; nothing found, or score every issue.
MainScore ==
    /\ pc = "fetched"
    /\ IF issues = <<>>
       THEN /\ out' = Append(out, "No issues found.")
            /\ pc' = "done"
            /\ issues' = issues
       ELSE /\ issues' = Scored(issues)
            /\ pc' = "scored"
            /\ out' = out
    /\ UNCHANGED <<entry, token, service, limit, all_issues, page, requests,
                   table_data, severity_counts, type_counts, summary, exit_code>>

\* Variant: a key that raises is swallowed and the list is left as it is.
MainSortSwallow ==
    /\ pc = "scored"
    /\ issues' = IF \E i \in 1..Len(issues) : IndexRaises(issues[i].severity)
                 THEN issues ELSE MergeSort(issues)
    /\ pc' = "sorted"
    /\ UNCHANGED <<entry, token, service, limit, all_issues, page, requests,
                   table_data, severity_counts, type_counts, summary, out, exit_code>>

\* Lines 139-140: the keys are computed for every issue, then the list is sorted;
\* a key that raises leaves the exception uncaught (traceback, exit status 1).
MainSort ==
    /\ pc = "scored"
    /\ IF \E i \in 1..Len(issues) : IndexRaises(issues[i].severity)
       THEN /\ out' = Append(out, "Traceback: ValueError")
            /\ exit_code' = 1
            /\ pc' = "crashed"
            /\ issues' = issues
       ELSE /\ issues' = MergeSort(issues)
            /\ pc' = "sorted"
            /\ UNCHANGED <<out, exit_code>>
    /\ UNCHANGED <<entry, token, service, limit, all_issues, page, requests,
                   table_data, severity_counts, type_counts, summary>>

\* Lines 143-189: the top 50, the table rows, the tallies, the table and the summary.
MainRender ==
    /\ pc = "sorted"
    /\ LET top_issues == Top(issues)
       IN  /\ table_data' = [i \in 1..Len(top_issues) |->
                               [idx |-> i,
                                severity |-> top_issues[i].severity,
                                type |-> top_issues[i].type,
                                id |-> top_issues[i].id]]
           /\ severity_counts' = Tally(top_issues, "severity")
           /\ type_counts' = Tally(top_issues, "type")
           /\ summary' = [fetched |-> Len(issues), displayed |-> Len(top_issues)]
    /\ out' = out \o <<"TOP 50 SONARQUBE ISSUES", "table", "SUMMARY",
                       "Total issues fetched", "Displayed (top 50)",
                       "Issues by Severity", "Issues by Type">>
    /\ pc' = "done"
    /\ UNCHANGED <<entry, token, service, limit, all_issues, page, requests, issues,
                   exit_code>>

----------------------------------------------------------------------------
(* Specification *)

Tokens == {"unset", "", "secret"}

\* Every list of at most MaxIssues kinds, as a service holding exactly those issues.
ListServices ==
    { [mode |-> "paged", T |-> Len(k), kinds |-> k] :
        k \in UNION {[1..m -> Kinds] : m \in 0..MaxIssues} }

PatternServices ==
    { [mode |-> "paged", T |-> n, kinds |-> k] :
        n \in (0..MaxIssues) \cup BigTotals, k \in Patterns }

FreeServices == { [mode |-> "free", T |-> 0, kinds |-> k] : k \in Patterns }

Limits == (-1..MaxLimit) \cup BigLimits

Init ==
    /\ entry \in {"main", "get_issues"}
    /\ IF entry = "main"
       THEN /\ token \in Tokens
            /\ limit = DefaultLimit
            /\ service \in ListServices \cup PatternServices
            /\ pc = "main"
       ELSE /\ token = "secret"
            /\ limit \in Limits
            /\ service \in PatternServices \cup FreeServices
            /\ service.mode = "free" => limit <= MaxLimit
            /\ pc = "loop"
    /\ all_issues = <<>>
    /\ page = 1
    /\ requests = <<>>
    /\ issues = <<>>
    /\ table_data = <<>>
    /\ severity_counts = <<>>
    /\ type_counts = <<>>
    /\ summary = [fetched |-> 0, displayed |-> 0]
    /\ out = <<>>
    /\ exit_code = 0

Next ==
    \/ MainStart
    \/ Request
    \/ ResponseOk
    \/ ResponseFail
    \/ Return
    \/ MainScore
    \/ MainSort
    \/ MainRender

Spec == Init /\ [][Next]_vars

----------------------------------------------------------------------------
(* Properties *)

\* get_issues has returned (to its caller, or to main, which went on).
Returned == pc \in {"returned", "fetched", "scored", "sorted", "crashed", "done"}

\* The number of issues handed to the caller of get_issues.
Fetched == Min(Len(all_issues), Max(limit, 0))

CeilDiv(a, b) == (a + b - 1) \div b

\* C1: against a paging service holding T issues that reports total = T, a call
\* with limit >= 1 requests pages 1, 2, 3, ... in order, none twice, and returns
\* after exactly max(1, ceil(min(T, limit) / 100)) requests.
C1_PagedRequests ==
    (service.mode = "paged" /\ limit >= 1) =>
        LET expected == Max(1, CeilDiv(Min(service.T, limit), 100))
        IN  /\ \A i \in 1..Len(requests) : requests[i] = i
            /\ Len(requests) <= expected
            /\ Returned => Len(requests) = expected

C1_Witness ==
    /\ pc = "returned" /\ service.mode = "paged"
    /\ service.T = 250 /\ limit = 500
    /\ requests = <<1, 2, 3>>

\* C2 as stated: whenever get_issues returns, the result is the first `limit`
\* entries of the accumulator in fetch order, its length never exceeds limit, and
\* against a paging service holding T issues its length is min(T, limit).
C2_Original ==
    pc \in {"returned", "fetched"} =>
        /\ Len(issues) = Min(limit, Len(all_issues))
        /\ \A i \in 1..Len(issues) : issues[i] = all_issues[i]
        /\ Len(issues) <= limit
        /\ service.mode = "paged" => Len(issues) = Min(service.T, limit)

\* C2 amended: the same with max(limit, 0) for limit: for limit >= 0 the result is
\* the first `limit` entries of the accumulator, of length min(T, limit) against
\* the paging service; for limit < 0 the result is empty.
C2_FirstLimit ==
    pc \in {"returned", "fetched"} =>
        LET lim == IF limit >= 0 THEN limit ELSE 0
        IN  /\ Len(issues) = Min(lim, Len(all_issues))
            /\ \A i \in 1..Len(issues) : issues[i] = all_issues[i] /\ issues[i].id = i
            /\ Len(issues) <= lim
            /\ service.mode = "paged" => Len(issues) = Min(service.T, lim)

C2_Witness ==
    /\ pc = "returned" /\ service.mode = "paged"
    /\ service.T = 1000 /\ limit = 120
    /\ Len(all_issues) = 200 /\ Len(issues) = 120

\* C3: once a page request has failed the run is over with exit status 1: the
\* failed page is the last one requested (no retry, no later page), and nothing
\* of the accumulated issues is returned, scored, sorted or printed.
C3_FailureIsFatal ==
    (\E k \in 1..Len(out) : out[k] = "Error fetching issues") =>
        /\ pc = "exited" /\ exit_code = 1
        /\ out[Len(out)] = "Error fetching issues"
        /\ Len(requests) = page
        /\ \A i \in 1..Len(requests) : requests[i] = i
        /\ issues = <<>> /\ table_data = <<>>
        /\ summary = [fetched |-> 0, displayed |-> 0]
        /\ \A k \in 1..Len(out) : out[k] \notin {"table", "Total issues fetched"}

C3_Witness ==
    /\ entry = "main" /\ pc = "exited" /\ exit_code = 1
    /\ Len(all_issues) = 200 /\ requests = <<1, 2, 3>>
    /\ issues = <<>>

\* C4: with SONARQ_TOKEN unset or empty the script exits with status 1 and never
\* issues a request.
C4_NoTokenNoRequest ==
    (entry = "main" /\ token \in {"unset", ""}) =>
        /\ requests = <<>>
        /\ pc \in {"main", "exited"}
        /\ pc = "exited" => exit_code = 1

C4_Witness ==
    /\ entry = "main" /\ token = "" /\ service.T = 250
    /\ pc = "exited" /\ exit_code = 1 /\ requests = <<>>

\* C5: when page 1 holds no issue, the run makes that one request, prints the
\* no-issues notice, scores, sorts and renders nothing, and ends with status 0.
C5_EmptyResult ==
    (entry = "main" /\ service.T = 0) =>
        /\ pc \notin {"scored", "sorted", "crashed"}
        /\ Len(requests) <= 1
        /\ issues = <<>> /\ table_data = <<>>
        /\ severity_counts = <<>> /\ type_counts = <<>>
        /\ summary = [fetched |-> 0, displayed |-> 0]
        /\ pc = "done" =>
             /\ requests = <<1>>
             /\ exit_code = 0
             /\ out = <<"Connecting to SonarQube", "Project key", "",
                        "Fetching issues...", "No issues found.">>

C5_Witness ==
    /\ entry = "main" /\ service.T = 0 /\ pc = "done"
    /\ requests = <<1>> /\ out[Len(out)] = "No issues found."

\* The position of a severity in [BLOCKER, CRITICAL, MAJOR, MINOR, INFO].
C6_Position(severity) ==
    CASE severity = "BLOCKER"  -> 0
      [] severity = "CRITICAL" -> 1
      [] severity = "MAJOR"    -> 2
      [] severity = "MINOR"    -> 3
      [] severity = "INFO"     -> 4

\* C6: after ranking, the list holds the fetched issues, a higher score comes
\* before a lower one, of two equal scores the severity earlier in the list comes
\* first, and issues equal in score and severity keep their fetch order.
C6_Ranked ==
    (entry = "main" /\ pc \in {"sorted", "done"} /\ issues # <<>>) =>
        /\ Len(issues) = Fetched
        /\ {issues[i].id : i \in 1..Len(issues)} = 1..Fetched
        /\ \A i, j \in 1..Len(issues) :
             i < j =>
               \/ issues[i].priority_score > issues[j].priority_score
               \/ /\ issues[i].priority_score = issues[j].priority_score
                  /\ C6_Position(issues[i].severity) < C6_Position(issues[j].severity)
               \/ /\ issues[i].priority_score = issues[j].priority_score
                  /\ issues[i].severity = issues[j].severity
                  /\ issues[i].id < issues[j].id

C6_Witness ==
    /\ entry = "main" /\ pc = "sorted" /\ Len(issues) = 2
    /\ issues[1] = [id |-> 2, severity |-> "BLOCKER", type |-> "SECURITY_HOTSPOT",
                    priority_score |-> 60]
    /\ issues[2] = [id |-> 1, severity |-> "CRITICAL", type |-> "VULNERABILITY",
                    priority_score |-> 60]

\* C7: with F >= 1 issues fetched, the table has min(F, 50) rows numbered from 1,
\* the first min(F, 50) issues of the ranked order, and the summary reports
\* fetched = F and displayed = min(F, 50); the run fails to get there only on a
\* severity outside the list.
C7_TopFifty ==
    (entry = "main" /\ Fetched >= 1) =>
        /\ pc = "done" =>
             /\ Len(table_data) = Min(Fetched, 50)
             /\ \A i \in 1..Len(table_data) :
                  table_data[i] = [idx |-> i, severity |-> issues[i].severity,
                                   type |-> issues[i].type, id |-> issues[i].id]
             /\ summary = [fetched |-> Fetched, displayed |-> Min(Fetched, 50)]
             /\ exit_code = 0
        /\ pc = "crashed" =>
             \E i \in 1..Len(issues) :
                issues[i].severity \notin {"BLOCKER", "CRITICAL", "MAJOR", "MINOR", "INFO"}

C7_Witness ==
    /\ entry = "main" /\ pc = "done" /\ service.T = 80
    /\ summary = [fetched |-> 80, displayed |-> 50]
    /\ Len(table_data) = 50 /\ table_data[50].idx = 50

\* The score table of the specification, in tenths.
C8_Table(severity, type_) ==
    LET base == CASE severity = "BLOCKER"  -> 50
                  [] severity = "CRITICAL" -> 40
                  [] severity = "MAJOR"    -> 30
                  [] severity = "MINOR"    -> 20
                  [] severity = "INFO"     -> 10
                  [] OTHER                 -> 0
    IN  CASE type_ = "VULNERABILITY"    -> (base * 3) \div 2
          [] type_ = "BUG"              -> (base * 13) \div 10
          [] type_ = "SECURITY_HOTSPOT" -> (base * 6) \div 5
          [] OTHER                      -> base

\* C8: every score the scorer hands out is base[severity] x multiplier[type], 0
\* for an unknown severity whatever the type, and the base score for an unknown
\* type.
C8_Score ==
    (entry = "main" /\ pc \in {"scored", "sorted", "crashed", "done"}) =>
        \A i \in 1..Len(issues) :
            issues[i].priority_score = C8_Table(issues[i].severity, issues[i].type)

C8_Witness ==
    /\ pc = "scored" /\ Len(issues) = 2
    /\ issues[1] = [id |-> 1, severity |-> "BLOCKER", type |-> "VULNERABILITY",
                    priority_score |-> 75]
    /\ issues[2] = [id |-> 2, severity |-> "TRIVIAL", type |-> "BUG",
                    priority_score |-> 0]

\* C9: with a fetched severity outside the list, that issue is scored 0 and the
\* run ends in the ranking step with a lookup failure: abnormal exit after the
\* fetch, no table row, no summary.
C9_UnknownSeverity ==
    (/\ entry = "main"
     /\ pc \in {"scored", "sorted", "crashed", "done"}
     /\ \E i \in 1..Len(issues) :
           issues[i].severity \notin {"BLOCKER", "CRITICAL", "MAJOR", "MINOR", "INFO"}) =>
        /\ pc \in {"scored", "crashed"}
        /\ \A i \in 1..Len(issues) :
             issues[i].severity \notin {"BLOCKER", "CRITICAL", "MAJOR", "MINOR", "INFO"}
                => issues[i].priority_score = 0
        /\ Len(issues) = Fetched
        /\ table_data = <<>>
        /\ summary = [fetched |-> 0, displayed |-> 0]
        /\ \A k \in 1..Len(out) : out[k] \notin {"table", "SUMMARY", "Total issues fetched"}
        /\ pc = "crashed" => exit_code = 1 /\ out[Len(out)] = "Traceback: ValueError"

C9_Witness ==
    /\ entry = "main" /\ pc = "crashed" /\ exit_code = 1
    /\ Len(issues) = 250
    /\ issues[1].severity = "MAJOR" /\ issues[3].severity = "TRIVIAL"
    /\ table_data = <<>>

\* What the fetch has left to do: three steps for every request it may still
\* issue, and the steps from its position to the next request or to the return.
FetchMeasure ==
    3 * (Max(limit, 0) - Len(requests))
      + (CASE pc = "await" -> 4 [] pc = "loop" -> 2 [] pc = "break" -> 1 [] OTHER -> 0)

RequestsBounded ==
    /\ Len(requests) <= Max(limit, 0)
    /\ pc = "await" => Len(all_issues) < limit /\ Len(all_issues) >= Len(requests) - 1
    /\ pc = "loop" => Len(all_issues) >= Len(requests)
    /\ \A i \in 1..Len(requests) : requests[i] = i

FetchAdvances ==
    (pc \in {"loop", "await", "break"}) =>
        (FetchMeasure' < FetchMeasure /\ 0 <= FetchMeasure')

\* C10: whatever the service answers, at most max(limit, 0) requests are issued:
\* a request goes out only while the accumulator is shorter than limit, every
\* request that does not end the fetch adds at least one issue, and every step of
\* the fetch brings its end nearer (the measure is never negative and decreases).
C10_BoundedRequests ==
    /\ []RequestsBounded
    /\ [][FetchAdvances]_vars

C10_Witness ==
    /\ service.mode = "free" /\ limit = 3 /\ pc = "returned"
    /\ Len(requests) = 3 /\ Len(issues) = 3

====
